---- MODULE Spec2Model ----
(***************************************************************************)
(* UMA Resource Server: the request handlers of ResourceServer             *)
(* (getResource, postResource, registerResourceToAS, getJWKSConfig) and    *)
(* the key generator / signed fetcher they use (JwkGenerator,              *)
(* SignedFetcher).                                                         *)
(*                                                                         *)
(* The server runs on a single-threaded event loop: a handler runs without *)
(* interruption from one `await` to the next.  Every action below is one   *)
(* such run-to-completion segment of one handler; the handlers of          *)
(* different requests interleave at the awaits only.                       *)
(*                                                                         *)
(* A handler whose promise rejects is recorded in `thrown`; nothing awaits *)
(* or catches the handlers' promises, so such a rejection is unhandled.    *)
(* The server is modelled as running on after it (Node warns); where Node  *)
(* ends the process instead, its behaviours are prefixes of these.         *)
(***************************************************************************)
EXTENDS Integers, Sequences, FiniteSets, TLC

\* ---------------------------------------------------------------- bounds
NTasks == 2          \* requests handled (concurrently) during one run

Tasks == 1..NTasks
\* request paths, POSTed texts (the empty one included) and the tickets the
\* AS hands out
Urls == {"/resource1"}
Bodies == {<<>>, <<"a">>, <<"a", "a">>}
Tickets == {"T1", "T2"}

\* ------------------------------------------------ configuration, literals
authServer == "http://localhost:4000/uma"
port == 3565
baseUrl == <<"http://localhost:", port>>
alg == "ES256"

ResourceURI(url) == <<baseUrl, url>>
ResourceURIs == {ResourceURI(u) : u \in Urls}

Undefined == <<"undefined">>
NotFoundBody == <<"Resource not found in Resource Server Storage">>
AlreadyExistsBody == <<"Resource already exists in Demo UMA Resource Server!">>
UnauthenticatedBody == <<"401 Unauthenticated">>
SavedBody(uri) == <<"Resource saved at ", uri>>
UmaAuthHeader(ticket) ==
    <<"UMA realm=\"solid\",as_uri=\"", authServer, "\",ticket=\"", ticket, "\"">>

\* JavaScript truthiness of a string value
TruthyText(s) == Len(s) > 0
\* truthiness of the result of Map.get
\* a lookup that never finds the entry
EntryIgnored(v) == FALSE
TruthyEntry(v) == v # Undefined /\ TruthyText(v)

\* ------------------------------------------------------- request inputs
NoHeader == "undefined"
AuthHeaders == {NoHeader, "Bearer X", "Basic X"}
TruthyHeader(h) == h \notin {NoHeader, ""}
\* authHeader.split("Bearer")[1] is defined only if the marker occurs
HasBearerMarker(h) == h = "Bearer X"

NoRequest == [kind |-> "none", url |-> "", auth |-> NoHeader, body |-> <<>>]

\* ------------------------------------------------------------ responses
NoResponse == [status |-> 0, body |-> <<>>, hdr |-> <<>>, keys |-> {}]
Response(status, body, hdr) ==
    [status |-> status, body |-> body, hdr |-> hdr, keys |-> {}]
JsonKeys(ks) == [status |-> 200, body |-> <<>>, hdr |-> <<>>, keys |-> ks]

NoError == [name |-> "", message |-> <<>>]
Error(message) == [name |-> "Error", message |-> message]
TypeError(message) == [name |-> "TypeError", message |-> message]
SyntaxError(message) == [name |-> "SyntaxError", message |-> message]
\* `${e}` of an error is "<name>: <message>"
ErrorText(e) == <<e.name, ": ">> \o e.message

\* ------------------------------------------------ answers of the AS
Endpoints == {"permission_endpoint", "introspection_endpoint",
              "resource_registration_endpoint"}
\* authServerUmaConfig: a promise that is pending, rejected, or resolved with
\* the metadata document (the endpoints it publishes)
ConfigPending == [state |-> "pending", endpoints |-> {}]
ConfigRejected == [state |-> "rejected", endpoints |-> {}]
ConfigResolved(es) == [state |-> "resolved", endpoints |-> es]
\* the metadata document publishes all endpoints or none of them
ConfigResults == {ConfigRejected, ConfigResolved(Endpoints), ConfigResolved({})}

NoAnswer == [k |-> "none", status |-> 0, v |-> ""]
NetFail == [k |-> "netfail", status |-> 0, v |-> ""]
NonJson(st) == [k |-> "nonjson", status |-> st, v |-> ""]
Json(st, v) == [k |-> "json", status |-> st, v |-> v]

ActiveValues == {"true", "false", "undefined", "null", "\"yes\""}
Truthy(v) == v \notin {"false", "undefined", "null", "\"\"", "0"}
IdValues == {"\"uma-1\"", "undefined", "42", "\"\""}
TypeofString(v) == v \in {"\"uma-1\"", "\"\"", "\"yes\""}

IntrospectionAnswers ==
    {NetFail, NonJson(200)} \cup {Json(200, a) : a \in ActiveValues}
TicketAnswers ==
    {NetFail, NonJson(200)} \cup {Json(200, t) : t \in Tickets \cup {"undefined"}}
RegistrationAnswers ==
    {NetFail, NonJson(201), Json(400, "undefined")} \cup {Json(201, i) : i \in IdValues}

\* ------------------------------------------------------------- key pairs
NoKey == [alg |-> "", x |-> 0, d |-> 0]
NoPublic == [alg |-> "", x |-> 0, kid |-> "", obj |-> 0]

VARIABLES
    resources,            \* ResourceServer.resources
    authServerUmaConfig,  \* ResourceServer.authServerUmaConfig (a promise)
    storage,              \* keyMap entry under the storage key "jwks"
    privateJwk,           \* JwkGenerator.privateJwk
    publicJwk,            \* JwkGenerator.publicJwk
    generated,            \* number of key pairs generateKeyPair has produced
    req,                  \* per task: the request it handles
    pc,                   \* per task: the await its handler is suspended at
    loc,                  \* per task: local variables of the handler
    answer,               \* per task: what the AS answered to its signed request
    resp,                 \* per task: the HTTP response sent to the client
    thrown,               \* per task: error the handler's promise rejected with
    reg,                  \* per task: state of the background registration
    keyAlg,               \* JwkGenerator.alg
    sent                  \* per task: keyid of each signed request handed to
                          \* the injected fetch

vars == <<resources, authServerUmaConfig, storage, privateJwk, publicJwk,
          generated, req, pc, loc, answer, resp, thrown, reg, keyAlg, sent>>

\* the n-th key pair produced by generateKeyPair, exported as private JWK
GeneratedJwk(n) == [alg |-> keyAlg, x |-> n, d |-> 100 + n]
\* the key an earlier process generated and left in the storage
PreviousJwk == [alg |-> alg, x |-> 50, d |-> 150]

keyVars == <<storage, privateJwk, publicJwk, generated>>

NoLocals == [jwks |-> NoKey, jwk |-> NoKey, pub |-> NoPublic]

Init ==
    /\ resources = [u \in ResourceURIs |-> Undefined]
    /\ authServerUmaConfig = ConfigPending
    /\ storage = NoKey
    /\ privateJwk = NoKey
    /\ publicJwk = NoPublic
    /\ generated = 0
    /\ req = [t \in Tasks |-> NoRequest]
    /\ pc = [t \in Tasks |-> "idle"]
    /\ loc = [t \in Tasks |-> NoLocals]
    /\ answer = [t \in Tasks |-> NoAnswer]
    /\ resp = [t \in Tasks |-> NoResponse]
    /\ thrown = [t \in Tasks |-> NoError]
    /\ reg = [t \in Tasks |-> "none"]
    /\ keyAlg = alg
    /\ sent = [t \in Tasks |-> <<>>]

\* requests are numbered in the order they arrive
MayArrive(t) ==
    /\ pc[t] = "idle"
    /\ IF t = 1 THEN TRUE ELSE pc[t - 1] # "idle"

\* ------------------------------------------------------------ helpers
Purpose(t) ==
    IF req[t].kind = "JWKS" THEN "jwks"
    ELSE IF req[t].kind = "POST" THEN "register"
    ELSE IF TruthyHeader(req[t].auth) THEN "introspect"
    ELSE "ticket"

EndpointOf(t) ==
    CASE Purpose(t) = "introspect" -> "introspection_endpoint"
      [] Purpose(t) = "ticket" -> "permission_endpoint"
      [] OTHER -> "resource_registration_endpoint"

\* the handler of task t ends: response r sent (or none), promise rejected
\* with e (or fulfilled), registration state g; its locals go out of scope
Finish(t, r, e, g) ==
    /\ pc' = [pc EXCEPT ![t] = "done"]
    /\ loc' = [loc EXCEPT ![t] = NoLocals]
    /\ resp' = [resp EXCEPT ![t] = r]
    /\ thrown' = [thrown EXCEPT ![t] = e]
    /\ reg' = [reg EXCEPT ![t] = g]
    /\ UNCHANGED sent

\* the catch clause around the introspection call
VerifyError(e) == Error(<<"Could not verify access token: ">> \o ErrorText(e))
InactiveError == Error(<<"Could not verify access token with introspection response.">>)
FetchFailed == TypeError(<<"fetch failed">>)
NotJson == SyntaxError(<<"Unexpected token in JSON">>)
InvalidUrl == TypeError(<<"Invalid URL">>)
ConfigFailed == TypeError(<<"fetch of uma2-configuration failed">>)
NoTrim == TypeError(<<"Cannot read properties of undefined (reading 'trim')">>)
UnsupportedAlgs == {"EdDSA", "ES256K"}
UnsupportedAlgorithm(a) == Error(<<a, " signing is not supported">>)
\* the keyid parameter SignedFetcher.fetch gives the signature
SignatureKeyId == "TODO"

\* the promise returned by SignedFetcher.fetch rejects with e in task t
FetchRejected(t, e) ==
    CASE Purpose(t) = "introspect" ->
            Finish(t, NoResponse, VerifyError(e), "none")
      [] Purpose(t) = "ticket" -> Finish(t, NoResponse, e, "none")
      [] OTHER -> Finish(t, resp[t], NoError, "failed")

\* a fetch that leaves the keyid to the signing key's id, the JWK's kid,
\* which the generated key does not have
SignAndSendKeyKid(t, jwk) ==
    IF jwk.alg \in UnsupportedAlgs
    THEN FetchRejected(t, UnsupportedAlgorithm(jwk.alg))
    ELSE IF EndpointOf(t) \in authServerUmaConfig.endpoints
    THEN /\ loc' = [loc EXCEPT ![t].jwk = jwk]
         /\ pc' = [pc EXCEPT ![t] = "net"]
         /\ sent' = [sent EXCEPT ![t] = Append(@, "undefined")]
         /\ UNCHANGED <<resp, thrown, reg>>
    ELSE FetchRejected(t, InvalidUrl)

\* a fetch that signs with a key of any algorithm
SignAndSendAnyAlg(t, jwk) ==
    IF EndpointOf(t) \in authServerUmaConfig.endpoints
    THEN /\ loc' = [loc EXCEPT ![t].jwk = jwk]
         /\ pc' = [pc EXCEPT ![t] = "net"]
         /\ sent' = [sent EXCEPT ![t] = Append(@, SignatureKeyId)]
         /\ UNCHANGED <<resp, thrown, reg>>
    ELSE FetchRejected(t, InvalidUrl)

\* SignedFetcher.fetch after getPrivateKey has resolved with jwk
SignAndSend(t, jwk) ==
    IF jwk.alg \in UnsupportedAlgs
    THEN FetchRejected(t, UnsupportedAlgorithm(jwk.alg))
    ELSE IF EndpointOf(t) \in authServerUmaConfig.endpoints
    THEN /\ loc' = [loc EXCEPT ![t].jwk = jwk]
         /\ pc' = [pc EXCEPT ![t] = "net"]
         /\ sent' = [sent EXCEPT ![t] = Append(@, SignatureKeyId)]
         /\ UNCHANGED <<resp, thrown, reg>>
    ELSE FetchRejected(t, InvalidUrl)

\* the caller of getPrivateKey in task t resumes with jwk
WithKey(t, jwk) ==
    IF Purpose(t) = "jwks"
    THEN /\ loc' = [loc EXCEPT ![t].jwk = jwk]
         /\ pc' = [pc EXCEPT ![t] = "pub"]
         /\ UNCHANGED <<resp, thrown, reg, sent>>
    ELSE SignAndSend(t, jwk)

\* JwkGenerator.getPrivateKey up to its first await
GetPrivateKeyCall(t) ==
    IF privateJwk # NoKey
    THEN /\ WithKey(t, privateJwk)
         /\ UNCHANGED <<storage, privateJwk, generated>>
    ELSE /\ loc' = [loc EXCEPT ![t].jwks = storage]
         /\ pc' = [pc EXCEPT ![t] = "key_read"]
         /\ UNCHANGED <<storage, privateJwk, generated, resp, thrown, reg, sent>>

PublicOf(jwk, o) == [alg |-> jwk.alg, x |-> jwk.x, kid |-> "undefined", obj |-> o]

\* ------------------------------------------------------------ actions
\* the startup fetch of <authServer>/.well-known/uma2-configuration settles
ConfigSettles(c) ==
    /\ authServerUmaConfig = ConfigPending
    /\ authServerUmaConfig' = c
    /\ UNCHANGED <<resources, keyAlg, keyVars, req, pc, loc, answer, sent, resp,
                   thrown, reg>>

\* a getPrivateKey that does not look at what the storage returned
KeyReadIgnoringStore(t) ==
    /\ pc[t] = "key_read"
    /\ pc' = [pc EXCEPT ![t] = "key_gen"]
    /\ UNCHANGED <<privateJwk, loc, resp, thrown, reg, sent>>
    /\ UNCHANGED <<resources, authServerUmaConfig, keyAlg, storage, publicJwk, generated, req,
                   answer>>

\* JwkGenerator.getPrivateKey resumes from `await this.storage.get`
KeyRead(t) ==
    /\ pc[t] = "key_read"
    /\ IF loc[t].jwks # NoKey
       THEN /\ privateJwk' = loc[t].jwks
            /\ WithKey(t, loc[t].jwks)
       ELSE /\ pc' = [pc EXCEPT ![t] = "key_gen"]
            /\ UNCHANGED <<privateJwk, loc, resp, thrown, reg, sent>>
    /\ UNCHANGED <<resources, authServerUmaConfig, keyAlg, storage, publicJwk, generated, req,
                   answer>>

\* generateKeyPair and exportJWK complete; the key set is put in the storage
KeyGenerated(t) ==
    /\ pc[t] = "key_gen"
    /\ generated' = generated + 1
    /\ storage' = GeneratedJwk(generated + 1)
    /\ loc' = [loc EXCEPT ![t].jwk = GeneratedJwk(generated + 1)]
    /\ pc' = [pc EXCEPT ![t] = "key_set"]
    /\ UNCHANGED <<resources, authServerUmaConfig, keyAlg, privateJwk, publicJwk, req,
                   answer, sent, resp, thrown, reg>>

\* JwkGenerator.getPrivateKey resumes from `await this.storage.set`
KeyStored(t) ==
    /\ pc[t] = "key_set"
    /\ privateJwk' = loc[t].jwk
    /\ WithKey(t, loc[t].jwk)
    /\ UNCHANGED <<resources, authServerUmaConfig, keyAlg, storage, publicJwk, generated, req,
                   answer>>

\* getResource: the request arrives, the handler awaits authServerUmaConfig
GetResource(t, url, auth) ==
    /\ MayArrive(t)
    /\ req' = [req EXCEPT ![t] = [kind |-> "GET", url |-> url, auth |-> auth,
                                  body |-> <<>>]]
    /\ pc' = [pc EXCEPT ![t] = "get_cfg"]
    /\ UNCHANGED <<resources, authServerUmaConfig, keyAlg, keyVars, loc, answer, sent,
                   resp, thrown, reg>>

\* getResource resumes with the AS metadata: token extraction or ticket
\* request, up to the first await of SignedFetcher.fetch
GetResumed(t) ==
    /\ pc[t] = "get_cfg"
    /\ authServerUmaConfig # ConfigPending
    /\ IF authServerUmaConfig = ConfigRejected
       THEN /\ Finish(t, NoResponse, ConfigFailed, "none")
            /\ UNCHANGED <<storage, privateJwk, generated>>
       ELSE IF TruthyHeader(req[t].auth) /\ ~HasBearerMarker(req[t].auth)
       THEN /\ Finish(t, NoResponse, NoTrim, "none")
            /\ UNCHANGED <<storage, privateJwk, generated>>
       ELSE GetPrivateKeyCall(t)
    /\ UNCHANGED <<resources, authServerUmaConfig, keyAlg, publicJwk, req, answer>>

\* getResource without the check of introspectionResponse.active
IntrospectedUnchecked(t, a) ==
    IF a.k = "netfail" THEN Finish(t, NoResponse, VerifyError(FetchFailed), "none")
    ELSE IF a.k = "nonjson" THEN Finish(t, NoResponse, VerifyError(NotJson), "none")
    ELSE LET resource == resources[ResourceURI(req[t].url)]
         IN Finish(t, Response(200, IF TruthyEntry(resource) THEN resource
                                    ELSE NotFoundBody, <<>>),
                   NoError, "none")

\* a token branch that looks the resource up before it looks at the answer
IntrospectedStoreFirst(t, a) ==
    LET resource == resources[ResourceURI(req[t].url)]
    IN IF ~TruthyEntry(resource)
       THEN Finish(t, Response(200, NotFoundBody, <<>>), NoError, "none")
       ELSE IF a.k = "netfail"
       THEN Finish(t, NoResponse, VerifyError(FetchFailed), "none")
       ELSE IF a.k = "nonjson"
       THEN Finish(t, NoResponse, VerifyError(NotJson), "none")
       ELSE IF ~Truthy(a.v)
       THEN Finish(t, NoResponse, VerifyError(InactiveError), "none")
       ELSE Finish(t, Response(200, resource, <<>>), NoError, "none")

\* the token branch of getResource once the AS has answered the introspection
Introspected(t, a) ==
    IF a.k = "netfail" THEN Finish(t, NoResponse, VerifyError(FetchFailed), "none")
    ELSE IF a.k = "nonjson" THEN Finish(t, NoResponse, VerifyError(NotJson), "none")
    ELSE IF ~Truthy(a.v) THEN Finish(t, NoResponse, VerifyError(InactiveError), "none")
    ELSE LET resource == resources[ResourceURI(req[t].url)]
         IN Finish(t, Response(200, IF TruthyEntry(resource) THEN resource
                                    ELSE NotFoundBody, <<>>),
                   NoError, "none")

\* getResource putting a ticket of its own in the challenge
ChallengedOwnTicket(t, a) ==
    IF a.k = "netfail" THEN Finish(t, NoResponse, FetchFailed, "none")
    ELSE IF a.k = "nonjson" THEN Finish(t, NoResponse, NotJson, "none")
    ELSE Finish(t, Response(401, UnauthenticatedBody, UmaAuthHeader("T1")),
                NoError, "none")

\* the no-token branch of getResource once the AS has answered the ticket request
Challenged(t, a) ==
    IF a.k = "netfail" THEN Finish(t, NoResponse, FetchFailed, "none")
    ELSE IF a.k = "nonjson" THEN Finish(t, NoResponse, NotJson, "none")
    ELSE Finish(t, Response(401, UnauthenticatedBody, UmaAuthHeader(a.v)),
                NoError, "none")

\* a registration that sends the request again when it failed
RegisteredRetrying(t, a) ==
    IF a.k = "netfail" \/ a.status # 201 \/ a.k = "nonjson"
       \/ ~Truthy(a.v) \/ ~TypeofString(a.v)
    THEN /\ sent' = [sent EXCEPT ![t] = Append(@, SignatureKeyId)]
         /\ reg' = [reg EXCEPT ![t] = "failed"]
         /\ UNCHANGED <<pc, loc, resp, thrown>>
    ELSE Finish(t, resp[t], NoError, "registered")

\* the then/catch chain of registerResourceToAS once the AS has answered
Registered(t, a) ==
    IF a.k = "netfail" \/ a.status # 201 \/ a.k = "nonjson"
       \/ ~Truthy(a.v) \/ ~TypeofString(a.v)
    THEN Finish(t, resp[t], NoError, "failed")
    ELSE Finish(t, resp[t], NoError, "registered")

\* the injected fetch settles: the AS answers a signed request, or the call fails
AsAnswers(t, a) ==
    /\ pc[t] = "net"
    /\ CASE Purpose(t) = "introspect" -> a \in IntrospectionAnswers /\ Introspected(t, a)
         [] Purpose(t) = "ticket" -> a \in TicketAnswers /\ Challenged(t, a)
         [] OTHER -> a \in RegistrationAnswers /\ Registered(t, a)
    /\ answer' = [answer EXCEPT ![t] = a]
    /\ UNCHANGED <<resources, authServerUmaConfig, keyAlg, keyVars, req>>

\* postResource starting the registration before it answers the writer
SaveResourceRegisterFirst(t, uri, body) ==
    /\ resources' = IF TruthyText(body) THEN [resources EXCEPT ![uri] = body]
                    ELSE resources
    /\ reg' = [reg EXCEPT ![t] = "called"]
    /\ pc' = [pc EXCEPT ![t] = "reg_cfg"]
    /\ UNCHANGED resp

\* postResource, lines 157-164: store, answer, start the registration
SaveResource(t, uri, body) ==
    /\ resources' = IF TruthyText(body) THEN [resources EXCEPT ![uri] = body]
                    ELSE resources
    /\ resp' = [resp EXCEPT ![t] = Response(204, SavedBody(uri), <<>>)]
    /\ reg' = [reg EXCEPT ![t] = "called"]
    /\ pc' = [pc EXCEPT ![t] = "reg_cfg"]

\* postResource: the whole handler, which has no await; the registration it
\* calls runs up to its await of authServerUmaConfig
PostResource(t, url, body) ==
    /\ MayArrive(t)
    /\ req' = [req EXCEPT ![t] = [kind |-> "POST", url |-> url, auth |-> NoHeader,
                                  body |-> body]]
    /\ IF TruthyEntry(resources[ResourceURI(url)])
       THEN /\ resp' = [resp EXCEPT ![t] = Response(200, AlreadyExistsBody, <<>>)]
            /\ pc' = [pc EXCEPT ![t] = "done"]
            /\ UNCHANGED <<resources, reg>>
       ELSE SaveResource(t, ResourceURI(url), body)
    /\ UNCHANGED <<authServerUmaConfig, keyAlg, keyVars, loc, answer, sent, thrown>>

\* registerResourceToAS resumes with the AS metadata and calls the signed fetch
RegResumed(t) ==
    /\ pc[t] = "reg_cfg"
    /\ authServerUmaConfig # ConfigPending
    /\ IF authServerUmaConfig = ConfigRejected
       THEN /\ Finish(t, resp[t], ConfigFailed, "unhandled")
            /\ UNCHANGED <<storage, privateJwk, generated>>
       ELSE GetPrivateKeyCall(t)
    /\ UNCHANGED <<resources, authServerUmaConfig, keyAlg, publicJwk, req, answer>>

\* getJWKSConfig: the request arrives; getPublicKey up to its first await
GetJWKSConfig(t) ==
    /\ MayArrive(t)
    /\ req' = [req EXCEPT ![t] = [kind |-> "JWKS", url |-> "/.well-known/jwks.json", auth |-> NoHeader,
                                  body |-> <<>>]]
    /\ IF publicJwk # NoPublic
       THEN /\ loc' = [loc EXCEPT ![t].pub = publicJwk]
            /\ pc' = [pc EXCEPT ![t] = "jwks_send"]
            /\ UNCHANGED <<storage, privateJwk, generated, resp, thrown, reg>>
       ELSE /\ IF privateJwk # NoKey
               THEN /\ loc' = [loc EXCEPT ![t].jwk = privateJwk]
                    /\ pc' = [pc EXCEPT ![t] = "pub"]
               ELSE /\ loc' = [loc EXCEPT ![t].jwks = storage]
                    /\ pc' = [pc EXCEPT ![t] = "key_read"]
            /\ UNCHANGED <<storage, privateJwk, generated, resp, thrown, reg>>
    /\ UNCHANGED <<resources, authServerUmaConfig, keyAlg, publicJwk, answer, sent>>

\* getPublicKey: importJWK, createPublicKey and exportJWK are done, the
\* public key is cached
PublicDerived(t) ==
    /\ pc[t] = "pub"
    /\ publicJwk' = PublicOf(loc[t].jwk, t)
    /\ loc' = [loc EXCEPT ![t].pub = PublicOf(loc[t].jwk, t)]
    /\ pc' = [pc EXCEPT ![t] = "jwks_send"]
    /\ UNCHANGED <<resources, authServerUmaConfig, keyAlg, storage, privateJwk,
                   generated, req, answer, sent, resp, thrown, reg>>

\* getJWKSConfig resumes with the public key object: Object.assign sets its
\* kid (in place), the key set is sent
JwksSend(t) ==
    /\ pc[t] = "jwks_send"
    /\ LET key == [loc[t].pub EXCEPT !.kid = "TODO"]
       IN /\ publicJwk' = IF publicJwk.obj = key.obj THEN key ELSE publicJwk
          /\ Finish(t, JsonKeys({key}), NoError, "none")
    /\ UNCHANGED <<resources, authServerUmaConfig, keyAlg, storage, privateJwk, generated, req,
                   answer>>

Next ==
    \/ \E c \in ConfigResults : ConfigSettles(c)
    \/ \E t \in Tasks, u \in Urls, h \in AuthHeaders : GetResource(t, u, h)
    \/ \E t \in Tasks : GetResumed(t)
    \/ \E t \in Tasks, u \in Urls, b \in Bodies : PostResource(t, u, b)
    \/ \E t \in Tasks : RegResumed(t)
    \/ \E t \in Tasks : GetJWKSConfig(t)
    \/ \E t \in Tasks : KeyRead(t)
    \/ \E t \in Tasks : KeyGenerated(t)
    \/ \E t \in Tasks : KeyStored(t)
    \/ \E t \in Tasks : PublicDerived(t)
    \/ \E t \in Tasks : JwksSend(t)
    \/ \E t \in Tasks, a \in IntrospectionAnswers \cup TicketAnswers
                           \cup RegistrationAnswers : AsAnswers(t, a)

Spec == Init /\ [][Next]_vars

\* a server whose JwkGenerator is constructed over a storage handed in from
\* outside: the storage is empty or holds the key of an earlier process
InitRestart ==
    /\ resources = [u \in ResourceURIs |-> Undefined]
    /\ authServerUmaConfig = ConfigPending
    /\ storage \in {NoKey, PreviousJwk}
    /\ privateJwk = NoKey
    /\ publicJwk = NoPublic
    /\ generated = 0
    /\ req = [t \in Tasks |-> NoRequest]
    /\ pc = [t \in Tasks |-> "idle"]
    /\ loc = [t \in Tasks |-> NoLocals]
    /\ answer = [t \in Tasks |-> NoAnswer]
    /\ resp = [t \in Tasks |-> NoResponse]
    /\ thrown = [t \in Tasks |-> NoError]
    /\ reg = [t \in Tasks |-> "none"]
    /\ keyAlg = alg
    /\ sent = [t \in Tasks |-> <<>>]

SpecRestart == InitRestart /\ [][Next]_vars

\* a JwkGenerator and SignedFetcher configured with one of these algorithms
Algs == {"ES256", "EdDSA", "ES256K"}

InitAlg ==
    /\ resources = [u \in ResourceURIs |-> Undefined]
    /\ authServerUmaConfig = ConfigPending
    /\ storage = NoKey
    /\ privateJwk = NoKey
    /\ publicJwk = NoPublic
    /\ generated = 0
    /\ req = [t \in Tasks |-> NoRequest]
    /\ pc = [t \in Tasks |-> "idle"]
    /\ loc = [t \in Tasks |-> NoLocals]
    /\ answer = [t \in Tasks |-> NoAnswer]
    /\ resp = [t \in Tasks |-> NoResponse]
    /\ thrown = [t \in Tasks |-> NoError]
    /\ reg = [t \in Tasks |-> "none"]
    /\ keyAlg \in Algs
    /\ sent = [t \in Tasks |-> <<>>]

SpecAlg == InitAlg /\ [][Next]_vars

\* ------------------------------------------------------------ properties
IsGet(t) == req[t].kind = "GET"
IsPost(t) == req[t].kind = "POST"
Uri(t) == ResourceURI(req[t].url)
AlreadyExists == Response(200, AlreadyExistsBody, <<>>)
TokenInvalid == VerifyError(InactiveError)
Saved(t) == IsPost(t) /\ resp[t].status = 204

\* C1: one JwkGenerator and one storage key see at most one key-generation
\* event, and every getPrivateKey call returns the key held by the backing store.
C1_SingleFlight ==
    /\ generated <= 1
    /\ \A t \in Tasks : loc[t].jwk # NoKey => loc[t].jwk = storage

\* C2: a GET with a bearer token that the introspection reports active:false
\* fails with TokenInvalid and sends nothing, whatever the store holds.
C2_InactiveTokenRejected ==
    \A t \in Tasks :
        (IsGet(t) /\ HasBearerMarker(req[t].auth) /\ answer[t] = Json(200, "false"))
        => (pc[t] = "done" /\ thrown[t] = TokenInvalid /\ resp[t] = NoResponse)

C2_Witness ==
    \E t \in Tasks :
        /\ IsGet(t) /\ HasBearerMarker(req[t].auth) /\ answer[t] = Json(200, "false")
        /\ pc[t] = "done"
        /\ resources[Uri(t)] # Undefined

\* C3: once a POST to a URI has succeeded, every later POST to that URI leaves
\* the store unchanged and is answered AlreadyExists.
C3_WriteOnce ==
    [][\A t \in Tasks, u \in Urls, b \in Bodies :
          (PostResource(t, u, b) /\ \E s \in Tasks : Saved(s) /\ req[s].url = u)
          => (resources' = resources /\ resp'[t] = AlreadyExists)]_vars

\* C4: of the POSTs made to one URI exactly one writes the resource and every
\* other one is answered AlreadyExists.
C4_OneWriter ==
    \A u \in Urls :
        LET posts == {t \in Tasks : IsPost(t) /\ req[t].url = u}
        IN posts # {} =>
              /\ Cardinality({t \in posts : resp[t].status = 204}) = 1
              /\ \A t \in posts : resp[t].status # 204 => resp[t] = AlreadyExists

\* C5 (as claimed): a GET without Authorization header always ends with the 401
\* challenge carrying the ticket the AS returned.
C5_AlwaysChallenged ==
    \A t \in Tasks :
        (IsGet(t) /\ ~TruthyHeader(req[t].auth) /\ pc[t] = "done")
        => /\ resp[t].status = 401
           /\ resp[t].hdr = UmaAuthHeader(answer[t].v)

\* C5 (amended): a GET without Authorization header whose ticket request the AS
\* answers with a JSON body carrying a ticket ends with status 401, body
\* "401 Unauthenticated" and the WWW-Authenticate header built from the
\* configured authServer and that ticket; no GET without Authorization header
\* is ever answered with anything else.
C5_ChallengeCarriesTicket ==
    \A t \in Tasks :
        (IsGet(t) /\ ~TruthyHeader(req[t].auth))
        => /\ (answer[t].k = "json" /\ answer[t].v \in Tickets)
                => resp[t] = Response(401, UnauthenticatedBody,
                                      <<"UMA realm=\"solid\",as_uri=\"",
                                        "http://localhost:4000/uma",
                                        "\",ticket=\"", answer[t].v, "\"">>)
           /\ resp[t] # NoResponse => (resp[t].status = 401 /\ answer[t].k = "json")

C5_Witness ==
    \E t \in Tasks :
        /\ IsGet(t) /\ ~TruthyHeader(req[t].auth) /\ pc[t] = "done"
        /\ answer[t] = Json(200, "T2")
        /\ resources[Uri(t)] # Undefined

\* C6: a GET with a token reported active:true, for a URI POSTed before with
\* content c (answered 204), returns exactly c with status 200.
C6_ReadsPostedContent ==
    \A s, t \in Tasks :
        (s < t /\ Saved(s) /\ IsGet(t) /\ req[t].url = req[s].url
           /\ answer[t] = Json(200, "true"))
        => resp[t] = Response(200, req[s].body, <<>>)

\* what tells the outcomes of two reads apart: the response, the class of the
\* error the handler ends with and the fixed text of that error
Outcome(t) == <<resp[t], thrown[t].name, Head(thrown[t].message)>>
IntrospectionFailed(t) ==
    /\ IsGet(t) /\ HasBearerMarker(req[t].auth) /\ pc[t] = "done"
    /\ authServerUmaConfig.state = "resolved"
    /\ answer[t].k \in {"none", "netfail", "nonjson"}

\* C7: a read whose introspection call itself fails ends with an outcome
\* different from the one of a read whose token the AS reports inactive.
C7_UnavailableDistinct ==
    \A s, t \in Tasks :
        (IntrospectionFailed(t) /\ IsGet(s) /\ answer[s] = Json(200, "false"))
        => Outcome(t) # Outcome(s)

\* C8: every GET handler that has ended has sent a response and has not ended
\* with an uncaught error.
C8_GetAnswered ==
    \A t \in Tasks :
        (IsGet(t) /\ pc[t] = "done") => (resp[t] # NoResponse /\ thrown[t] = NoError)

\* C9: however the registration fails, the writer keeps its 204 answer, the
\* stored resource stays and no error escapes unhandled.
C9_RegistrationFailureContained ==
    \A t \in Tasks :
        (IsPost(t) /\ reg[t] \notin {"none", "called", "registered"})
        => /\ reg[t] = "failed"
           /\ thrown[t] = NoError
           /\ resp[t] = Response(204, SavedBody(Uri(t)), <<>>)
           /\ TruthyText(req[t].body) => resources[Uri(t)] # Undefined

\* C10: whenever the registration of a POSTed resource has been called, is in
\* flight, or has ended, the writer's 204 response has already been sent.
C10_ResponseBeforeRegistration ==
    \A t \in Tasks :
        (IsPost(t) /\ (reg[t] # "none" \/ pc[t] \in {"reg_cfg", "key_read", "key_gen",
                                                     "key_set", "net"}))
        => resp[t] = Response(204, SavedBody(Uri(t)), <<>>)

C10_Witness ==
    \E t \in Tasks : IsPost(t) /\ pc[t] = "net" /\ reg[t] = "called"

\* C11: a JwkGenerator over a storage that already holds a key never
\* generates one: as long as the storage holds the earlier key, every step
\* leaves it there and generates nothing, getPrivateKey returns that key
\* (cached or handed to a caller), and every public key cached or published
\* is derived from it.
C11_RestartReusesKey ==
    [][storage = PreviousJwk =>
        /\ storage' = PreviousJwk
        /\ generated' = 0
        /\ privateJwk' \in {NoKey, PreviousJwk}
        /\ \A t \in Tasks : loc'[t].jwk \in {NoKey, PreviousJwk}
        /\ publicJwk' # NoPublic =>
              /\ publicJwk'.x = PreviousJwk.x
              /\ publicJwk'.alg = PreviousJwk.alg
        /\ \A t \in Tasks : \A k \in resp'[t].keys :
              k.x = PreviousJwk.x /\ k.alg = PreviousJwk.alg]_vars

\* after the restart the stored key has signed a request and has been
\* published
C11_Witness ==
    /\ storage = PreviousJwk
    /\ privateJwk = PreviousJwk
    /\ \E t \in Tasks : \E k \in resp[t].keys : k.x = PreviousJwk.x
    /\ \E t \in Tasks : sent[t] # <<>>

\* C12: the keyid of every signed request handed to the injected fetch
\* equals the kid of every key published at /.well-known/jwks.json,
\* whatever the order of signing calls and JWKS requests.
C12_KeyIdMatchesKid ==
    \A s \in Tasks, t \in Tasks :
        \A i \in 1..Len(sent[s]) : \A k \in resp[t].keys : sent[s][i] = k.kid

\* a request has been signed and a key set has been published
C12_Witness ==
    \E s \in Tasks, t \in Tasks :
        /\ sent[s] # <<>>
        /\ resp[t].keys # {}

\* the handler of task t has called SignedFetcher.fetch and the call is over
FetchOver(t) ==
    /\ pc[t] = "done"
    /\ Purpose(t) # "jwks"
    /\ authServerUmaConfig.state = "resolved"
    /\ thrown[t] # NoTrim
    /\ IsPost(t) => reg[t] # "none"

\* C13: with EdDSA or ES256K no request is ever handed to the injected fetch;
\* every SignedFetcher.fetch call fails with the unsupported-algorithm error,
\* and by then getPrivateKey has generated, stored and cached a key of that
\* algorithm; the JWKS handler, which only needs the key, does not fail.
C13_FailsAtSignTime ==
    keyAlg \in UnsupportedAlgs =>
        /\ \A t \in Tasks :
              /\ sent[t] = <<>>
              /\ pc[t] # "net"
              /\ answer[t] = NoAnswer
        /\ \A t \in Tasks : FetchOver(t) =>
              /\ Purpose(t) = "ticket" => thrown[t] = UnsupportedAlgorithm(keyAlg)
              /\ Purpose(t) = "introspect" =>
                    thrown[t] = VerifyError(UnsupportedAlgorithm(keyAlg))
              /\ Purpose(t) = "register" => reg[t] = "failed"
              /\ generated > 0
              /\ storage.alg = keyAlg
              /\ privateJwk.alg = keyAlg
        /\ \A t \in Tasks : (pc[t] = "done" /\ Purpose(t) = "jwks") =>
              /\ thrown[t] = NoError
              /\ \E k \in resp[t].keys : k.alg = keyAlg

\* a fetch has failed at sign time with a stored key of the algorithm
C13_Witness ==
    /\ keyAlg \in UnsupportedAlgs
    /\ storage.alg = keyAlg
    /\ \E t \in Tasks : FetchOver(t) /\ thrown[t] = UnsupportedAlgorithm(keyAlg)

\* C14: a GET with a bearer token whose introspection response carries an
\* active field other than the boolean true ends with the inactive-token
\* error and sends nothing.
C14_OnlyTrueAccepted ==
    \A t \in Tasks :
        (/\ IsGet(t) /\ HasBearerMarker(req[t].auth)
         /\ answer[t].k = "json" /\ answer[t].v # "true")
        => (thrown[t] = TokenInvalid /\ resp[t] = NoResponse)

C16_NonBearerChallenged ==
    \A t \in Tasks :
        (/\ IsGet(t) /\ TruthyHeader(req[t].auth)
         /\ ~HasBearerMarker(req[t].auth) /\ pc[t] = "done")
        => /\ thrown[t] \in {NoError, FetchFailed, NotJson, InvalidUrl, ConfigFailed}
           /\ thrown[t] = NoError => resp[t].status = 401

FirstWrite(t) ==
    /\ Saved(t)
    /\ \A s \in Tasks : (s < t /\ Saved(s)) => Uri(s) # Uri(t)

\* C17 as stated: every first successful write of a URI whose handler and
\* registration have ended has sent exactly one request to the AS.
C17_ExactlyOneCall ==
    \A t \in Tasks : (FirstWrite(t) /\ pc[t] = "done") => Len(sent[t]) = 1

\* C17, amended: a POST answered 204 starts one registration, which sends at
\* most one request, to the registration endpoint of the AS metadata, and
\* exactly one when the metadata resolved and names that endpoint; a POST
\* answered AlreadyExists starts no registration and sends nothing; a failed
\* registration is over and has sent one request at most.
C17_RegistrationCalls ==
    \A t \in Tasks : IsPost(t) =>
        /\ Len(sent[t]) <= 1
        /\ sent[t] # <<>> =>
              /\ Saved(t)
              /\ "resource_registration_endpoint" \in authServerUmaConfig.endpoints
        /\ Saved(t) => reg[t] # "none"
        /\ (/\ Saved(t) /\ pc[t] = "done"
            /\ authServerUmaConfig = ConfigResolved(Endpoints))
           => Len(sent[t]) = 1
        /\ resp[t] = AlreadyExists => (reg[t] = "none" /\ sent[t] = <<>>)
        /\ reg[t] = "failed" => pc[t] = "done"

\* a first write has sent its registration request, the registration has
\* failed, and a later POST to the URI was answered AlreadyExists
C17_Witness ==
    \E s \in Tasks, t \in Tasks :
        /\ FirstWrite(s) /\ reg[s] = "failed" /\ Len(sent[s]) = 1
        /\ IsPost(t) /\ resp[t] = AlreadyExists /\ Uri(t) = Uri(s)

\* C18: no step removes or overwrites an entry of the resource store, and
\* the only step that changes the store is a POST that adds its body under
\* a URI that had no entry; in particular no step of a GET changes it.
C18_StoreOnlyGrowsByPost ==
    [][/\ \A u \in ResourceURIs :
            resources[u] # Undefined => resources'[u] = resources[u]
       /\ resources' # resources =>
            \E t \in Tasks, url \in Urls, b \in Bodies :
                /\ PostResource(t, url, b)
                /\ resources[ResourceURI(url)] = Undefined
                /\ resources' = [resources EXCEPT ![ResourceURI(url)] = b]]_vars

\* a resource has been stored and then read
C18_Witness ==
    \E s \in Tasks, t \in Tasks :
        /\ Saved(s) /\ resources[Uri(s)] = req[s].body
        /\ IsGet(t) /\ pc[t] = "done"
        /\ resp[t] = Response(200, req[s].body, <<>>)

\* C19: whenever a public key is cached it is the public half of the cached
\* private key and of the key in the storage, and every published key is the
\* public half of the key in the storage.
C19_PublicMatchesPrivate ==
    /\ publicJwk # NoPublic =>
          /\ publicJwk.x = privateJwk.x
          /\ publicJwk.x = storage.x
    /\ \A t \in Tasks : \A k \in resp[t].keys : k.x = storage.x

\* C20: whenever a POST has been answered 204 'Resource saved at <uri>', the
\* store holds under <uri> the body of that request, the empty body included.
C20_SavedIsStored ==
    \A t \in Tasks : Saved(t) => resources[Uri(t)] = req[t].body

====
